---- MODULE Spec2Model ----
(***************************************************************************)
(* KnowledgeGraphBuilder (src/src/graph/builder.py): one build() call on   *)
(* a builder instance, as the sequence of its phase methods _load, _nodes, *)
(* _edges, _features, _to_pyg and _save over six CSV tables.               *)
(*                                                                         *)
(* Identifiers are small integers (a CSV key column read as int), country  *)
(* names are strings.  A table cell that feeds float()/int() is a record   *)
(* with a kind: a number, a NaN (an empty CSV cell) or a non-numeric text. *)
(* Each node type carries one or two of the numeric features declared for  *)
(* it in NODE_FEATURE_SPECS.  Further specifications below run build()     *)
(* more than once, and the contract loader of src/src/data/loader.py.      *)
(***************************************************************************)
EXTENDS Bags, FiniteSets, Integers, Sequences, TLC

VARIABLES
    files,            \* names of the table files present in data_dir
    csv,              \* contents of the six table files, a sequence of rows each
    pyg,              \* TRUE iff torch_geometric can be imported
    data,             \* self._data: table name -> rows, for the tables loaded so far
    order,            \* self.G: node identifiers in insertion (iteration) order
    attr,             \* self.G: node identifier -> attribute record
    edges,            \* self.G: bag of edges [u, v, relation] (a multigraph)
    id_maps,          \* self.id_maps without "_country_by_name": type -> (key -> index)
    country_by_name,  \* self.id_maps["_country_by_name"]: name -> country id
    node_features,    \* self.node_features: type -> rows of the normalized matrix
    hetero,           \* self.hetero: None, or the HeteroData bundle
    written,          \* names of the files written to output_dir
    calls,            \* the phase methods build() has completed, in order
    status,           \* "running" | "done" | "failed"
    error,            \* the exception that ended build(), if any
    past,             \* the outcomes of the build() calls that ended earlier, in order
    id_maps_json,     \* the contents of the file id_maps.json in output_dir
    loader            \* a call of src/src/data/loader.py: its arguments, position and result

vars == <<files, csv, pyg, data, order, attr, edges, id_maps, country_by_name,
          node_features, hetero, written, calls, status, error, past, loader,
          id_maps_json>>

(***************************************************************************)
(* Bounds of the model                                                     *)
(***************************************************************************)
MaxRows == 2
MaxLinks == 2

(***************************************************************************)
(* Helpers                                                                 *)
(***************************************************************************)
SeqUpTo(S, n) == UNION {[1..k -> S] : k \in 0..n}

EmptyMap == [k \in {} |-> 0]

Range(f) == {f[k] : k \in DOMAIN f}

(***************************************************************************)
(* Schema (src/src/graph/schema.py)                                        *)
(***************************************************************************)
Tables == <<"suppliers", "components", "countries", "contracts", "routes", "sourcing_links">>

TableNames == {Tables[i] : i \in DOMAIN Tables}

NodeTypes == <<"supplier", "component", "country", "contract", "route">>

NodeTypeSet == {NodeTypes[i] : i \in DOMAIN NodeTypes}

EntityTable(t) ==
    CASE t = "supplier"  -> "suppliers"
      [] t = "component" -> "components"
      [] t = "country"   -> "countries"
      [] t = "contract"  -> "contracts"
      [] t = "route"     -> "routes"

EDGE_TYPES ==
    << [src |-> "supplier", relation |-> "supplies",      dst |-> "component"],
       [src |-> "supplier", relation |-> "located_in",    dst |-> "country"],
       [src |-> "contract", relation |-> "covers",        dst |-> "component"],
       [src |-> "contract", relation |-> "signed_with",   dst |-> "supplier"],
       [src |-> "route",    relation |-> "originates_in", dst |-> "country"],
       [src |-> "route",    relation |-> "delivers_to",   dst |-> "country"],
       [src |-> "route",    relation |-> "carries",       dst |-> "component"],
       [src |-> "supplier", relation |-> "co_supplier",   dst |-> "supplier"],
       [src |-> "country",  relation |-> "trades_with",   dst |-> "country"] >>

Relations == {EDGE_TYPES[i].relation : i \in DOMAIN EDGE_TYPES}

EdgeTypeOf(rel) == CHOOSE e \in {EDGE_TYPES[i] : i \in DOMAIN EDGE_TYPES} : e.relation = rel

\* NODE_FEATURE_SPECS, cut to the first two declared features of a supplier,
\* the first and the last of a component, the first of every other type
NODE_FEATURE_SPECS(t) ==
    CASE t = "supplier"  -> <<"annual_spend_usd", "on_time_delivery">>
      [] t = "component" -> <<"unit_cost_usd", "criticality_encoded">>
      [] t = "country"   -> <<"geopolitical_risk">>
      [] t = "contract"  -> <<"value_usd">>
      [] t = "route"     -> <<"transit_days">>

FeatureNames == UNION {Range(NODE_FEATURE_SPECS(t)) : t \in NodeTypeSet}

CRITICALITY_MAP == [l \in {"Low", "Medium", "High", "Critical"} |->
                      CASE l = "Low" -> 0 [] l = "Medium" -> 1 [] l = "High" -> 2
                        [] l = "Critical" -> 3]

(***************************************************************************)
(* Cells and Python's conversions of them                                  *)
(***************************************************************************)
Num(v) == [kind |-> "num", val |-> v]

NaN == [kind |-> "nan", val |-> 0]

Text == [kind |-> "str", val |-> 0]

\* float(v) raises ValueError on a non-numeric text; float(nan) is nan
FloatRaises(c) == c.kind = "str"

\* int(v) raises ValueError on a NaN and on a non-numeric text
IntRaises(c) == c.kind # "num"

\* _safe for one key: float(v) if v == v, else 0.0; any exception gives 0.0
Safe(c) == IF c.kind = "num" THEN c.val ELSE 0

\* Python truthiness of an identifier or of None
None == -1

Truthy(v) == v # None /\ v # 0

(***************************************************************************)
(* Input tables                                                            *)
(***************************************************************************)
SupplierRow(k, name, i) ==
    [supplier_id |-> k, country |-> name, annual_spend_usd |-> Num(i),
     on_time_delivery |-> Num(1)]

ComponentRow(k, i) == [component_id |-> k, unit_cost_usd |-> Num(i), criticality |-> "Low"]

CountryRow(k, name, i) == [country_id |-> k, name |-> name, geopolitical_risk |-> Num(i)]

ContractRow(k, s, c, i) ==
    [contract_id |-> k, supplier_id |-> s, primary_component_id |-> c, value_usd |-> Num(i)]

RouteRow(k, o, d, c, i) ==
    [route_id |-> k, origin_country |-> o, destination_country |-> d,
     component_id |-> c, transit_days |-> Num(i)]

LinkRow(s, c, p, u) ==
    [supplier_id |-> s, component_id |-> c, is_primary |-> p, unit_price_usd |-> u]

\* a table of suppliers with the given keys, row i carrying the feature value i
SupplierTable(ks, name) == [i \in DOMAIN ks |-> SupplierRow(ks[i], name, i)]

ComponentTable(ks) == [i \in DOMAIN ks |-> ComponentRow(ks[i], i)]

\* the key 2 is used by the supplier and by the component table
SupplierKeys == {1, 2}

ComponentKeys == {2, 3}

CountryChoices == {<< >>, <<CountryRow(4, "N1", 1)>>}

ContractChoices == {<< >>, <<ContractRow(5, 1, 3, 1)>>}

RouteChoices == {<< >>, <<RouteRow(6, "N1", "N1", 3, 1)>>}

LinkRows == {LinkRow(s, c, Num(1), Num(5)) : s \in SupplierKeys, c \in ComponentKeys}

Cells == {Num(1), NaN, Text}

\* sourcing links of supplier 1 with every kind of cell; component 7 is in no table
DefectLinkRows == {LinkRow(1, c, p, u) : c \in {3, 7}, p \in Cells, u \in Cells}

\* a well-formed data set, used where the tables themselves are not what varies
SampleTables ==
    [suppliers      |-> SupplierTable(<<1, 2>>, "N1"),
     components     |-> ComponentTable(<<3>>),
     countries      |-> <<CountryRow(4, "N1", 1)>>,
     contracts      |-> <<ContractRow(5, 1, 3, 1)>>,
     routes         |-> <<RouteRow(6, "N1", "N1", 3, 1)>>,
     sourcing_links |-> <<LinkRow(1, 3, Num(1), Num(5)), LinkRow(2, 3, Num(0), Num(5))>>]

NoError == [type |-> "none", file |-> "", hint |-> ""]

NoHetero == [present |-> FALSE, x |-> EmptyMap, edge_index |-> EmptyMap]

\* KnowledgeGraphBuilder.__init__
Constructed ==
    /\ data = EmptyMap
    /\ order = << >>
    /\ attr = EmptyMap
    /\ edges = EmptyBag
    /\ id_maps = EmptyMap
    /\ country_by_name = EmptyMap
    /\ node_features = EmptyMap
    /\ hetero = NoHetero
    /\ written = {}
    /\ id_maps_json = EmptyMap
    /\ calls = << >>
    /\ status = "running"
    /\ error = NoError

AllTablesInit ==
    /\ files = TableNames
    /\ pyg = TRUE
    /\ \E sk \in SeqUpTo(SupplierKeys, MaxRows), ck \in SeqUpTo(ComponentKeys, MaxRows),
          co \in CountryChoices, ct \in ContractChoices, ro \in RouteChoices,
          sl \in SeqUpTo(LinkRows, MaxLinks) :
            csv = [suppliers      |-> SupplierTable(sk, "N1"),
                   components     |-> ComponentTable(ck),
                   countries      |-> co,
                   contracts      |-> ct,
                   routes         |-> ro,
                   sourcing_links |-> sl]

MissingFileInit ==
    /\ files \in (SUBSET TableNames) \ {TableNames}
    /\ pyg = TRUE
    /\ csv = SampleTables

DefectInit ==
    /\ files = TableNames
    /\ pyg = TRUE
    /\ \E sl \in SeqUpTo(DefectLinkRows, MaxLinks) :
          csv = [SampleTables EXCEPT !.sourcing_links = sl]

\* torch_geometric is not installed; the sourcing links are well-formed, or
\* one link with cells of every kind
NoPygInit ==
    /\ files = TableNames
    /\ pyg = FALSE
    /\ \/ csv = SampleTables
       \/ \E d \in DefectLinkRows : csv = [SampleTables EXCEPT !.sourcing_links = <<d>>]

\* no build() call has ended yet
NoPast == << >>

\* no function of the loader module has been called
NoCall ==
    [entry |-> "none", n |-> 0, cache |-> FALSE, cached |-> 0, pc |-> "idle",
     records |-> 0, page |-> 0, per_page |-> 0, rows |-> 0, columns |-> {},
     error |-> "none", api |-> "ok"]

Init ==
    /\ \/ AllTablesInit
       \/ MissingFileInit
       \/ DefectInit
       \/ NoPygInit
    /\ Constructed
    /\ past = NoPast
    /\ loader = NoCall

(***************************************************************************)
(* build(): the phase methods in the order build() calls them              *)
(***************************************************************************)
\* BuildSteps, were the features computed before the edges
BuildStepsFeaturesFirst == <<"_load", "_nodes", "_features", "_edges", "_to_pyg", "_save">>

BuildSteps == <<"_load", "_nodes", "_edges", "_features", "_to_pyg", "_save">>

\* the next method build() calls
AtStep(m) ==
    /\ status = "running"
    /\ Len(calls) < Len(BuildSteps)
    /\ BuildSteps[Len(calls) + 1] = m

Completed(m) ==
    /\ calls' = Append(calls, m)
    /\ status' = IF Len(calls) + 1 = Len(BuildSteps) THEN "done" ELSE "running"
    /\ error' = error

Raised(e) ==
    /\ calls' = calls
    /\ status' = "failed"
    /\ error' = e

(***************************************************************************)
(* _load                                                                   *)
(***************************************************************************)
\* position in Tables of the first table whose file does not exist, 0 if none
FirstMissing ==
    IF \A i \in DOMAIN Tables : Tables[i] \in files THEN 0
    ELSE CHOOSE i \in DOMAIN Tables :
            /\ Tables[i] \notin files
            /\ \A j \in 1..(i - 1) : Tables[j] \in files

MissingError(t) ==
    [type |-> "FileNotFoundError", file |-> t, hint |-> "python -m src.data.generator"]

\* Load, were the existence test left out
LoadUnchecked ==
    /\ AtStep("_load")
    /\ data' = [t \in TableNames |-> csv[t]]
    /\ Completed("_load")
    /\ UNCHANGED <<past, loader, id_maps_json, files, csv, pyg, order, attr, edges, id_maps, country_by_name,
                   node_features, hetero, written>>

Load ==
    /\ AtStep("_load")
    /\ LET m == FirstMissing
           upto == IF m = 0 THEN Len(Tables) ELSE m - 1
       IN /\ data' = [t \in {Tables[i] : i \in 1..upto} |-> csv[t]]
          /\ IF m = 0 THEN Completed("_load") ELSE Raised(MissingError(Tables[m]))
    /\ UNCHANGED <<past, loader, id_maps_json, files, csv, pyg, order, attr, edges, id_maps, country_by_name,
                   node_features, hetero, written>>

(***************************************************************************)
(* _nodes                                                                  *)
(***************************************************************************)
Key(t, row) ==
    CASE t = "supplier"  -> row.supplier_id
      [] t = "component" -> row.component_id
      [] t = "country"   -> row.country_id
      [] t = "contract"  -> row.contract_id
      [] t = "route"     -> row.route_id

\* _safe(row, keys): row.get(k, 0.0) is 0.0 for a column the table lacks
SafeRow(row, keys) == [k \in keys |-> IF k \in DOMAIN row THEN Safe(row[k]) ELSE 0]

\* CriticalityEncoded, were the labels numbered from 1
CriticalityEncodedFromOne(row) ==
    LET label == IF "criticality" \in DOMAIN row THEN row.criticality ELSE "Low"
    IN IF label \in DOMAIN CRITICALITY_MAP THEN CRITICALITY_MAP[label] + 1 ELSE 0

\* CRITICALITY_MAP.get(str(row.get("criticality", "Low")), 0)
CriticalityEncoded(row) ==
    LET label == IF "criticality" \in DOMAIN row THEN row.criticality ELSE "Low"
    IN IF label \in DOMAIN CRITICALITY_MAP THEN CRITICALITY_MAP[label] ELSE 0

\* the feature keywords of the add_node call of one row
NodeFeats(t, row) ==
    IF t = "component"
    THEN LET fs == SafeRow(row, Range(NODE_FEATURE_SPECS(t)) \ {"criticality_encoded"})
         IN [f \in Range(NODE_FEATURE_SPECS(t)) |->
                IF f = "criticality_encoded" THEN CriticalityEncoded(row) ELSE fs[f]]
    ELSE SafeRow(row, Range(NODE_FEATURE_SPECS(t)))

\* self.G as one value
Graph == [order |-> order, attr |-> attr, edges |-> edges]

\* n in G
InG(g, n) == n \in DOMAIN g.attr

\* AddNode, were every call to make a new node
AddNodeAlwaysNew(g, nid, t, fs) ==
    LET rec == [node_type |-> t,
                feats |-> [f \in FeatureNames |-> IF f \in DOMAIN fs THEN fs[f] ELSE None]]
    IN [order |-> Append(g.order, nid),
        attr  |-> [n \in DOMAIN g.attr \cup {nid} |-> IF n = nid THEN rec ELSE g.attr[n]],
        edges |-> g.edges]

\* AddNode, were the attributes of an existing node left as they are
AddNodeKeepsFirst(g, nid, t, fs) ==
    LET rec == [node_type |-> t,
                feats |-> [f \in FeatureNames |-> IF f \in DOMAIN fs THEN fs[f] ELSE None]]
    IN IF InG(g, nid) THEN g
       ELSE [order |-> Append(g.order, nid),
             attr  |-> [n \in DOMAIN g.attr \cup {nid} |-> IF n = nid THEN rec ELSE g.attr[n]],
             edges |-> g.edges]

\* G.add_node(nid, node_type=t, **fs): a new node is appended, the attributes
\* of an existing one are updated in place (dict.update)
AddNode(g, nid, t, fs) ==
    LET old(f) == IF InG(g, nid) THEN g.attr[nid].feats[f] ELSE None
        rec == [node_type |-> t,
                feats |-> [f \in FeatureNames |-> IF f \in DOMAIN fs THEN fs[f] ELSE old(f)]]
    IN [order |-> IF InG(g, nid) THEN g.order ELSE Append(g.order, nid),
        attr  |-> [n \in DOMAIN g.attr \cup {nid} |-> IF n = nid THEN rec ELSE g.attr[n]],
        edges |-> g.edges]

\* the loop of _nodes over one table, rows 1..n: row number i gets index i - 1
RECURSIVE NodesOfTable(_, _, _, _)
NodesOfTable(g, t, rows, n) ==
    IF n = 0 THEN g
    ELSE AddNode(NodesOfTable(g, t, rows, n - 1), Key(t, rows[n]), t,
                 NodeFeats(t, rows[n]))

\* self.id_maps.setdefault(t, {})[nid] = i over the rows 1..n of one table
RECURSIVE IndexOfTable(_, _, _)
IndexOfTable(t, rows, n) ==
    IF n = 0 THEN EmptyMap
    ELSE LET m == IndexOfTable(t, rows, n - 1)
             nid == Key(t, rows[n])
         IN [k \in DOMAIN m \cup {nid} |-> IF k = nid THEN n - 1 ELSE m[k]]

\* self.id_maps["_country_by_name"][row["name"]] = nid over the rows 1..n
RECURSIVE ByNameOfTable(_, _)
ByNameOfTable(rows, n) ==
    IF n = 0 THEN EmptyMap
    ELSE LET m == ByNameOfTable(rows, n - 1)
         IN [k \in DOMAIN m \cup {rows[n].name} |->
                IF k = rows[n].name THEN rows[n].country_id ELSE m[k]]

\* the five loops of _nodes, over the first k node types
RECURSIVE NodesOfTypes(_, _)
NodesOfTypes(g, k) ==
    IF k = 0 THEN g
    ELSE LET t == NodeTypes[k]
             rows == data[EntityTable(t)]
         IN NodesOfTable(NodesOfTypes(g, k - 1), t, rows, Len(rows))

\* setdefault(t, {}) creates the map of a type at its first row; an existing
\* map keeps its entries
IdMapsAfterNodes(old) ==
    LET fresh(t) == IndexOfTable(t, data[EntityTable(t)], Len(data[EntityTable(t)]))
        prev(t) == IF t \in DOMAIN old THEN old[t] ELSE EmptyMap
        has == {t \in NodeTypeSet : Len(data[EntityTable(t)]) > 0}
    IN [t \in DOMAIN old \cup has |->
           [k \in DOMAIN prev(t) \cup DOMAIN fresh(t) |->
               IF k \in DOMAIN fresh(t) THEN fresh(t)[k] ELSE prev(t)[k]]]

Nodes ==
    /\ AtStep("_nodes")
    /\ LET g == NodesOfTypes(Graph, Len(NodeTypes))
       IN /\ order' = g.order
          /\ attr' = g.attr
          /\ edges' = g.edges
    /\ id_maps' = IdMapsAfterNodes(id_maps)
    /\ country_by_name' = ByNameOfTable(data["countries"], Len(data["countries"]))
    /\ Completed("_nodes")
    /\ UNCHANGED <<past, loader, id_maps_json, files, csv, pyg, data, node_features, hetero, written>>

(***************************************************************************)
(* _edges                                                                  *)
(***************************************************************************)
Edge(u, v, rel) == [u |-> u, v |-> v, relation |-> rel]

\* a node that add_edge creates has no attribute
Bare == [node_type |-> "", feats |-> [f \in FeatureNames |-> None]]

\* G.add_edge(u, v, relation=rel): networkx adds an endpoint that is not yet a node
AddEdge(g, u, v, rel) ==
    LET o1 == IF InG(g, u) THEN g.order ELSE Append(g.order, u)
        o2 == IF InG(g, v) \/ v = u THEN o1 ELSE Append(o1, v)
    IN [order |-> o2,
        attr  |-> [n \in DOMAIN g.attr \cup {u, v} |-> IF InG(g, n) THEN g.attr[n] ELSE Bare],
        edges |-> g.edges (+) SetToBag({Edge(u, v, rel)})]

AddEdgeIf(cond, g, u, v, rel) == IF cond THEN AddEdge(g, u, v, rel) ELSE g

\* by_name.get(name)
ByName(name) == IF name \in DOMAIN country_by_name THEN country_by_name[name] ELSE None

\* SuppliesLoop, were the membership test left out
RECURSIVE SuppliesLoopUnguarded(_, _, _)
SuppliesLoopUnguarded(g, rows, n) ==
    IF n = 0 THEN [g |-> g, raised |-> FALSE]
    ELSE LET prev == SuppliesLoopUnguarded(g, rows, n - 1)
         IN IF prev.raised THEN prev
            ELSE IF IntRaises(rows[n].is_primary) \/ FloatRaises(rows[n].unit_price_usd)
                 THEN [g |-> prev.g, raised |-> TRUE]
                 ELSE [g |-> AddEdge(prev.g, rows[n].supplier_id, rows[n].component_id,
                                     "supplies"),
                       raised |-> FALSE]

\* the first loop: int(row["is_primary"]) and float(row["unit_price_usd"]) are
\* evaluated, and may raise, only for a row that passed the membership test
RECURSIVE SuppliesLoop(_, _, _)
SuppliesLoop(g, rows, n) ==
    IF n = 0 THEN [g |-> g, raised |-> FALSE]
    ELSE LET prev == SuppliesLoop(g, rows, n - 1)
             s == rows[n].supplier_id
             c == rows[n].component_id
         IN IF prev.raised \/ ~(InG(prev.g, s) /\ InG(prev.g, c)) THEN prev
            ELSE IF IntRaises(rows[n].is_primary) \/ FloatRaises(rows[n].unit_price_usd)
                 THEN [g |-> prev.g, raised |-> TRUE]
                 ELSE [g |-> AddEdge(prev.g, s, c, "supplies"), raised |-> FALSE]

RECURSIVE LocatedInLoop(_, _, _)
LocatedInLoop(g, rows, n) ==
    IF n = 0 THEN g
    ELSE LET prev == LocatedInLoop(g, rows, n - 1)
             sid == rows[n].supplier_id
             cnid == ByName(rows[n].country)
         IN AddEdgeIf(InG(prev, sid) /\ Truthy(cnid) /\ InG(prev, cnid),
                      prev, sid, cnid, "located_in")

RECURSIVE ContractsLoop(_, _, _)
ContractsLoop(g, rows, n) ==
    IF n = 0 THEN g
    ELSE LET prev == ContractsLoop(g, rows, n - 1)
             cid == rows[n].contract_id
             sid == rows[n].supplier_id
             cmp == rows[n].primary_component_id
             g1 == AddEdgeIf(InG(prev, cid) /\ InG(prev, cmp), prev, cid, cmp, "covers")
         IN AddEdgeIf(InG(g1, cid) /\ InG(g1, sid), g1, cid, sid, "signed_with")

RECURSIVE RoutesLoop(_, _, _)
RoutesLoop(g, rows, n) ==
    IF n = 0 THEN g
    ELSE LET prev == RoutesLoop(g, rows, n - 1)
             rid == rows[n].route_id
             ocid == ByName(rows[n].origin_country)
             dcid == ByName(rows[n].destination_country)
             cmp == rows[n].component_id
             has == InG(prev, rid)
             g1 == AddEdgeIf(has /\ Truthy(ocid) /\ InG(prev, ocid), prev, rid, ocid, "originates_in")
             g2 == AddEdgeIf(has /\ Truthy(dcid) /\ InG(g1, dcid), g1, rid, dcid, "delivers_to")
         IN AddEdgeIf(has /\ InG(g2, cmp), g2, rid, cmp, "carries")

\* comp_to_sups[c]: the supplier ids of the sourcing links of component c, in row order
CompToSups(rows, c) ==
    LET OfC(r) == r.component_id = c
        sel == SelectSeq(rows, OfC)
    IN [i \in DOMAIN sel |-> sel[i].supplier_id]

\* SortedPair, were the pair kept in the order of the supplier list
PairAsListed(a, b) == <<a, b>>

\* tuple(sorted([a, b]))
SortedPair(a, b) == IF a <= b THEN <<a, b>> ELSE <<b, a>>

\* PairsOf, were a pair added as (sups[i], sups[j]) without sorting it
PairsOfUnsorted(sups) ==
    {<<sups[x[1]], sups[x[2]]>> :
        x \in {y \in (DOMAIN sups) \X (DOMAIN sups) : y[1] < y[2]}}

\* the pairs added to co for one component: i < j over its supplier list
PairsOf(sups) ==
    {SortedPair(sups[x[1]], sups[x[2]]) :
        x \in {y \in (DOMAIN sups) \X (DOMAIN sups) : y[1] < y[2]}}

\* the set co
CoPairs(rows) ==
    UNION {PairsOf(CompToSups(rows, c)) : c \in {rows[i].component_id : i \in DOMAIN rows}}

\* the orders in which Python may iterate over a set
Orders(S) == {o \in [1..Cardinality(S) -> S] : Range(o) = S}

\* CoSupplierLoop, were only the edge s1 -> s2 added
RECURSIVE CoSupplierLoopOneWay(_, _)
CoSupplierLoopOneWay(g, co) ==
    IF co = << >> THEN g
    ELSE LET p == co[Len(co)]
             prev == CoSupplierLoopOneWay(g, SubSeq(co, 1, Len(co) - 1))
         IN AddEdgeIf(InG(prev, p[1]) /\ InG(prev, p[2]), prev, p[1], p[2], "co_supplier")

\* CoSupplierLoop, were the loop left at the first pair with a supplier that
\* is missing from G
RECURSIVE CoSupplierLoopUntilMissing(_, _)
CoSupplierLoopUntilMissing(g, co) ==
    IF co = << >> THEN g
    ELSE LET p == co[Len(co)]
             prev == CoSupplierLoopUntilMissing(g, SubSeq(co, 1, Len(co) - 1))
             ok == \A i \in DOMAIN co : InG(g, co[i][1]) /\ InG(g, co[i][2])
         IN AddEdgeIf(ok, AddEdgeIf(ok, prev, p[1], p[2], "co_supplier"),
                      p[2], p[1], "co_supplier")

\* for s1, s2 in co, co taken in its iteration order: both directions are
\* added when both suppliers are in G
RECURSIVE CoSupplierLoop(_, _)
CoSupplierLoop(g, co) ==
    IF co = << >> THEN g
    ELSE LET p == co[Len(co)]
             prev == CoSupplierLoop(g, SubSeq(co, 1, Len(co) - 1))
             ok == InG(prev, p[1]) /\ InG(prev, p[2])
         IN AddEdgeIf(ok, AddEdgeIf(ok, prev, p[1], p[2], "co_supplier"),
                      p[2], p[1], "co_supplier")

\* the set tw
TradePairs(rows) ==
    {<<ByName(rows[i].origin_country), ByName(rows[i].destination_country)>> :
        i \in {j \in DOMAIN rows : /\ Truthy(ByName(rows[j].origin_country))
                                   /\ Truthy(ByName(rows[j].destination_country))}}

\* for c1, c2 in tw, tw taken in its iteration order
RECURSIVE TradesWithLoop(_, _)
TradesWithLoop(g, tw) ==
    IF tw = << >> THEN g
    ELSE LET p == tw[Len(tw)]
             prev == TradesWithLoop(g, SubSeq(tw, 1, Len(tw) - 1))
         IN AddEdgeIf(InG(prev, p[1]) /\ InG(prev, p[2]), prev, p[1], p[2], "trades_with")

ValueError == [type |-> "ValueError", file |-> "", hint |-> ""]

\* the sets co and tw are iterated in an order the run chooses
Edges ==
    /\ AtStep("_edges")
    /\ \E co \in Orders(CoPairs(data["sourcing_links"])),
          tw \in Orders(TradePairs(data["routes"])) :
         LET links == data["sourcing_links"]
             r1 == SuppliesLoop(Graph, links, Len(links))
             g2 == LocatedInLoop(r1.g, data["suppliers"], Len(data["suppliers"]))
             g3 == ContractsLoop(g2, data["contracts"], Len(data["contracts"]))
             g4 == RoutesLoop(g3, data["routes"], Len(data["routes"]))
             g5 == CoSupplierLoop(g4, co)
             g6 == TradesWithLoop(g5, tw)
             g == IF r1.raised THEN r1.g ELSE g6
         IN /\ order' = g.order
            /\ attr' = g.attr
            /\ edges' = g.edges
            /\ IF r1.raised THEN Raised(ValueError) ELSE Completed("_edges")
    /\ UNCHANGED <<past, loader, id_maps_json, files, csv, pyg, data, id_maps, country_by_name,
                   node_features, hetero, written>>

(***************************************************************************)
(* _features                                                               *)
(***************************************************************************)
\* [n for n, d in self.G.nodes(data=True) if d.get("node_type") == t]
NodesOfType(t) ==
    LET IsT(n) == attr[n].node_type = t
    IN SelectSeq(order, IsT)

\* float(d.get(f, 0.0) or 0.0)
Raw(n, f) ==
    LET v == attr[n].feats[f]
    IN IF v = None THEN 0 ELSE v

MinOf(S) == CHOOSE m \in S : \A x \in S : m <= x

MaxOf(S) == CHOOSE m \in S : \A x \in S : x <= m

\* a matrix entry (value - min) / rng, kept as a fraction
Frac(n, d) == [num |-> n, den |-> d]

\* Matrix, were the minimum and the maximum taken over the whole matrix
MatrixOneScale(t) ==
    LET ns == NodesOfType(t)
        fs == NODE_FEATURE_SPECS(t)
        all == {Raw(ns[i], fs[j]) : i \in DOMAIN ns, j \in DOMAIN fs}
        mins == MinOf(all)
        maxs == MaxOf(all)
        rng == IF maxs - mins = 0 THEN 1 ELSE maxs - mins
    IN [i \in DOMAIN ns |-> [j \in DOMAIN fs |-> Frac(Raw(ns[i], fs[j]) - mins, rng)]]

\* the normalized matrix of one type: one row per node of the type, in graph
\* order, one column per declared feature, each column with its own minimum,
\* maximum and range (a zero range is replaced by 1)
Matrix(t) ==
    LET ns == NodesOfType(t)
        fs == NODE_FEATURE_SPECS(t)
        col(j) == {Raw(ns[i], fs[j]) : i \in DOMAIN ns}
        mins(j) == MinOf(col(j))
        maxs(j) == MaxOf(col(j))
        rng(j) == IF maxs(j) - mins(j) = 0 THEN 1 ELSE maxs(j) - mins(j)
    IN [i \in DOMAIN ns |->
           [j \in DOMAIN fs |-> Frac(Raw(ns[i], fs[j]) - mins(j), rng(j))]]

Features ==
    /\ AtStep("_features")
    /\ LET has == {t \in NodeTypeSet : Len(NodesOfType(t)) > 0}
       IN node_features' =
            [t \in DOMAIN node_features \cup has |->
                IF t \in has THEN Matrix(t) ELSE node_features[t]]
    /\ Completed("_features")
    /\ UNCHANGED <<past, loader, id_maps_json, files, csv, pyg, data, order, attr, edges, id_maps, country_by_name,
                   hetero, written>>

(***************************************************************************)
(* _to_pyg                                                                 *)
(***************************************************************************)
\* self.id_maps.get(t, {})
IdMap(t) == IF t \in DOMAIN id_maps THEN id_maps[t] ELSE EmptyMap

\* the edges of G tagged rel whose endpoints are keys of sm and of dm
Exported(rel, sm, dm) ==
    {e \in BagToSet(edges) : e.relation = rel /\ e.u \in DOMAIN sm /\ e.v \in DOMAIN dm}

\* Columns, were parallel edges of G given one column between them
RECURSIVE ColumnsOfDistinctEdges(_, _, _)
ColumnsOfDistinctEdges(es, sm, dm) ==
    IF es = {} THEN EmptyBag
    ELSE LET e == CHOOSE x \in es : TRUE
         IN SetToBag({<<sm[e.u], dm[e.v]>>}) (+) ColumnsOfDistinctEdges(es \ {e}, sm, dm)

\* the columns (sm[u], dm[v]) of an edge-index tensor, as a bag
RECURSIVE Columns(_, _, _)
Columns(es, sm, dm) ==
    IF es = {} THEN EmptyBag
    ELSE LET e == CHOOSE x \in es : TRUE
             one == SetToBag({<<sm[e.u], dm[e.v]>>})
             RECURSIVE Times(_)
             Times(k) == IF k = 0 THEN EmptyBag ELSE one (+) Times(k - 1)
         IN Times(CopiesIn(e, edges)) (+) Columns(es \ {e}, sm, dm)

EdgeIndex(rel) ==
    LET et == EdgeTypeOf(rel)
        sm == IdMap(et.src)
        dm == IdMap(et.dst)
    IN Columns(Exported(rel, sm, dm), sm, dm)

ImportError == [type |-> "ImportError", file |-> "", hint |-> ""]

\* ToPyg, were the ImportError of torch_geometric not caught
ToPygRequired ==
    /\ AtStep("_to_pyg")
    /\ hetero' =
         IF ~pyg THEN hetero
         ELSE [present    |-> TRUE,
               x          |-> node_features,
               edge_index |-> [rel \in {r \in Relations : EdgeIndex(r) # EmptyBag} |->
                                  EdgeIndex(rel)]]
    /\ IF ~pyg THEN Raised(ImportError) ELSE Completed("_to_pyg")
    /\ UNCHANGED <<past, loader, id_maps_json, files, csv, pyg, data, order, attr, edges, id_maps,
                   country_by_name, node_features, written>>

\* _to_pyg: None when torch_geometric cannot be imported, else the bundle of
\* the feature matrices and of one edge-index tensor per relation with edges
ToPyg ==
    /\ AtStep("_to_pyg")
    /\ hetero' =
         IF ~pyg THEN NoHetero
         ELSE [present    |-> TRUE,
               x          |-> node_features,
               edge_index |-> [rel \in {r \in Relations : EdgeIndex(r) # EmptyBag} |->
                                  EdgeIndex(rel)]]
    /\ Completed("_to_pyg")
    /\ UNCHANGED <<past, loader, id_maps_json, files, csv, pyg, data, order, attr, edges, id_maps, country_by_name,
                   node_features, written>>

(***************************************************************************)
(* stats and _save                                                         *)
(***************************************************************************)
\* Stats, were parallel edges counted once
StatsOfSimpleGraph ==
    LET n == Len(order)
        m == Cardinality(BagToSet(edges))
    IN [n_nodes     |-> [t \in NodeTypeSet |-> Len(NodesOfType(t))],
        n_edges     |-> [rel \in Relations |->
                            Cardinality({x \in BagToSet(edges) : x.relation = rel})],
        total_nodes |-> n,
        total_edges |-> m,
        density     |-> IF n > 1 THEN Frac(m, n * (n - 1)) ELSE Frac(0, 1)]

\* stats(): the node count of every type, the edge count of every relation,
\* the totals and the density
Stats ==
    LET n == Len(order)
        m == BagCardinality(edges)
    IN [n_nodes     |-> [t \in NodeTypeSet |-> Len(NodesOfType(t))],
        n_edges     |-> [rel \in Relations |->
                            BagCardinality([e \in {x \in BagToSet(edges) : x.relation = rel}
                                                |-> edges[e]])],
        total_nodes |-> n,
        total_edges |-> m,
        density     |-> IF n > 1 THEN Frac(m, n * (n - 1)) ELSE Frac(0, 1)]

\* self.id_maps as the one dictionary it is at _save: the map of every node
\* type with rows, and the name map under "_country_by_name"
AllIdMaps ==
    [k \in DOMAIN id_maps \cup {"_country_by_name"} |->
        IF k = "_country_by_name" THEN country_by_name ELSE id_maps[k]]

\* k.startswith("_"), over the keys self.id_maps can have
StartsWithUnderscore(k) == k \notin NodeTypeSet

\* str(kk): the text of a key, distinct from the key and from the text of
\* every other key
Str(kk) == <<"str", kk>>

\* {str(kk): int(vv) for kk, vv in v.items()}; the values are the row
\* positions enumerate() gave, which int() leaves as they are
JsonMap(v) == [s \in {Str(kk) : kk \in DOMAIN v} |-> v[s[2]]]

\* Save, were every map of self.id_maps written to id_maps.json
SaveEveryMap ==
    /\ AtStep("_save")
    /\ written' = written \cup {"procurement_kg.graphml", "id_maps.json", "kg_stats.json"}
                          \cup (IF hetero.present THEN {"procurement_kg.pt"} ELSE {})
    /\ id_maps_json' = [k \in DOMAIN AllIdMaps |-> JsonMap(AllIdMaps[k])]
    /\ Completed("_save")
    /\ UNCHANGED <<past, loader, files, csv, pyg, data, order, attr, edges, id_maps,
                   country_by_name, node_features, hetero>>

\* _save: the graph file, the bundle when there is one, the maps of
\* self.id_maps whose key does not start with "_", and the statistics
Save ==
    /\ AtStep("_save")
    /\ written' = written \cup {"procurement_kg.graphml", "id_maps.json", "kg_stats.json"}
                          \cup (IF hetero.present THEN {"procurement_kg.pt"} ELSE {})
    /\ id_maps_json' = [k \in {x \in DOMAIN AllIdMaps : ~StartsWithUnderscore(x)} |->
                           JsonMap(AllIdMaps[k])]
    /\ Completed("_save")
    /\ UNCHANGED <<past, loader, files, csv, pyg, data, order, attr, edges, id_maps,
                   country_by_name, node_features, hetero>>

Next ==
    \/ Load
    \/ Nodes
    \/ Edges
    \/ Features
    \/ ToPyg
    \/ Save

Spec == Init /\ [][Next]_vars

(***************************************************************************)
(* The end-to-end scenario: 3 suppliers, 2 components, 2 countries,        *)
(* 1 contract, 1 route and 4 sourcing links, every key used once           *)
(***************************************************************************)
ScenarioLinkRows == {LinkRow(s, c, Num(1), Num(5)) : s \in {1, 2, 3}, c \in {4, 5}}

ScenarioTables(sl) ==
    [suppliers      |-> SupplierTable(<<1, 2, 3>>, "N1"),
     components     |-> ComponentTable(<<4, 5>>),
     countries      |-> <<CountryRow(6, "N1", 1), CountryRow(7, "N2", 2)>>,
     contracts      |-> <<ContractRow(8, 1, 4, 1)>>,
     routes         |-> <<RouteRow(9, "N1", "N2", 4, 1)>>,
     sourcing_links |-> sl]

ScenarioInit ==
    /\ files = TableNames
    /\ pyg = TRUE
    /\ \E sl \in [1..4 -> ScenarioLinkRows] : csv = ScenarioTables(sl)
    /\ Constructed
    /\ past = NoPast
    /\ loader = NoCall

SpecScenario == ScenarioInit /\ [][Next]_vars

(***************************************************************************)
(* References by country name and by identifier: routes, suppliers and     *)
(* contracts whose references resolve or dangle, and country tables with a *)
(* repeated name and with the identifier 0                                 *)
(***************************************************************************)
MaxRoutes == 2

CountryNames == {"N1", "N2", "N9"}

\* no country is named N9
RelCountryChoices ==
    {<< >>,
     <<CountryRow(4, "N1", 1)>>,
     <<CountryRow(4, "N1", 1), CountryRow(5, "N2", 2)>>,
     <<CountryRow(0, "N1", 1), CountryRow(5, "N2", 2)>>,
     <<CountryRow(4, "N1", 1), CountryRow(5, "N1", 2)>>}

\* the route tables of k rows, route 60 + i carrying component 3
RelRouteTables(k) ==
    {[i \in 1..k |-> RouteRow(60 + i, o[i], d[i], 3, i)] :
        o \in [1..k -> CountryNames], d \in [1..k -> CountryNames]}

\* a contract of supplier 1 or 7 for component 3 or 9; 7 and 9 are in no table
RelContractChoices ==
    {<< >>} \cup {<<ContractRow(8, sid, cmp, 1)>> : sid \in {1, 7}, cmp \in {3, 9}}

RelationsInit ==
    /\ files = TableNames
    /\ pyg = TRUE
    /\ \E co \in RelCountryChoices, ck \in {<< >>, <<3>>} :
          \/ \E k \in 1..MaxRoutes : \E ro \in RelRouteTables(k) :
                csv = [SampleTables EXCEPT !.countries = co,
                                           !.components = ComponentTable(ck),
                                           !.contracts = <<ContractRow(8, 1, 3, 1)>>,
                                           !.routes = ro]
          \/ \E name \in CountryNames, ct \in RelContractChoices :
                csv = [SampleTables EXCEPT !.suppliers = <<SupplierRow(1, "N1", 1),
                                                           SupplierRow(2, name, 2)>>,
                                           !.countries = co,
                                           !.components = ComponentTable(ck),
                                           !.contracts = ct,
                                           !.routes = <<RouteRow(61, "N1", "N2", 3, 1)>>]
    /\ Constructed
    /\ past = NoPast
    /\ loader = NoCall

SpecRelations == RelationsInit /\ [][Next]_vars

(***************************************************************************)
(* Feature cells of every kind: numbers, empty cells, texts, a column the  *)
(* table lacks, and criticality labels inside and outside CRITICALITY_MAP  *)
(***************************************************************************)
MaxFeatRows == 3

FeatCells == {Num(0), Num(2), Num(5), NaN, Text}

OnTimeCells == {Num(1), Num(3)}

\* str() of the criticality cell: the four labels, another text, an empty cell
Labels == DOMAIN CRITICALITY_MAP \cup {"Unknown", "nan"}

\* the supplier tables of k rows, with and without the column on_time_delivery
SupplierFeatTables(k) ==
    {[i \in 1..k |-> [supplier_id |-> 20 + i, country |-> "N1",
                      annual_spend_usd |-> a[i], on_time_delivery |-> b[i]]] :
        a \in [1..k -> FeatCells], b \in [1..k -> OnTimeCells]}
    \cup {[i \in 1..k |-> [supplier_id |-> 20 + i, country |-> "N1",
                           annual_spend_usd |-> a[i]]] : a \in [1..k -> FeatCells]}

ComponentFeatTables(k) ==
    {[i \in 1..k |-> [component_id |-> 30 + i, unit_cost_usd |-> Num(i),
                      criticality |-> l[i]]] : l \in [1..k -> Labels]}

FeatTables(su, cm) ==
    [SampleTables EXCEPT !.suppliers = su, !.components = cm,
                         !.sourcing_links = <<LinkRow(21, 31, Num(1), Num(5))>>]

FeatureInit ==
    /\ files = TableNames
    /\ pyg = TRUE
    /\ \/ \E k \in 1..MaxFeatRows : \E su \in SupplierFeatTables(k) :
             csv = FeatTables(su, <<[component_id |-> 31, unit_cost_usd |-> Num(1),
                                     criticality |-> "Low"]>>)
       \/ \E k \in 1..MaxFeatRows : \E cm \in ComponentFeatTables(k) :
             csv = FeatTables(<<[supplier_id |-> 21, country |-> "N1",
                                 annual_spend_usd |-> NaN],
                                [supplier_id |-> 22, country |-> "N1",
                                 annual_spend_usd |-> Text]>>, cm)
    /\ Constructed
    /\ past = NoPast
    /\ loader = NoCall

SpecFeatures == FeatureInit /\ [][Next]_vars

(***************************************************************************)
(* build() called more than once over the same input: on a second builder  *)
(* instance, or again on the same instance                                 *)
(***************************************************************************)
MaxBuilds == 2

\* three sourcing links of component 3 among the suppliers 1, 2 and 8 (8 is in
\* no table), components with or without the key 2 of a supplier, and routes
\* between one or two pairs of countries
RunLinkRows == {LinkRow(s, 3, Num(1), Num(5)) : s \in {1, 2, 8}}

RunRouteChoices ==
    {<<RouteRow(6, "N1", "N1", 3, 1)>>,
     <<RouteRow(6, "N1", "N2", 3, 1), RouteRow(7, "N2", "N1", 3, 1)>>,
     <<RouteRow(6, "N1", "N9", 3, 1), RouteRow(7, "N2", "N2", 3, 1)>>}

ThreeLinkInit ==
    /\ files = TableNames
    /\ pyg = TRUE
    /\ \E ck \in {<<3>>, <<2, 3>>}, ro \in RunRouteChoices, sl \in [1..3 -> RunLinkRows] :
          csv = [SampleTables EXCEPT !.components = ComponentTable(ck),
                                     !.countries = <<CountryRow(4, "N1", 1),
                                                     CountryRow(5, "N2", 2)>>,
                                     !.contracts = <<ContractRow(9, 1, 3, 1)>>,
                                     !.routes = ro,
                                     !.sourcing_links = sl]

RunsInit ==
    /\ \/ ThreeLinkInit
       \/ MissingFileInit
       \/ DefectInit
       \/ NoPygInit
    /\ Constructed
    /\ past = NoPast
    /\ loader = NoCall

\* build() has returned or raised
Ended == status \in {"done", "failed"}

\* what a build() call leaves behind
Outcome == [id_maps |-> id_maps, n_edges |-> Stats.n_edges, status |-> status]

\* a new KnowledgeGraphBuilder over the same directories, and build() on it:
\* __init__ makes an empty graph and empty maps; the files written stay
NewBuilder ==
    /\ Ended
    /\ Len(past) + 1 < MaxBuilds
    /\ past' = Append(past, Outcome)
    /\ data' = EmptyMap
    /\ order' = << >>
    /\ attr' = EmptyMap
    /\ edges' = EmptyBag
    /\ id_maps' = EmptyMap
    /\ country_by_name' = EmptyMap
    /\ node_features' = EmptyMap
    /\ hetero' = NoHetero
    /\ calls' = << >>
    /\ status' = "running"
    /\ error' = NoError
    /\ UNCHANGED <<loader, id_maps_json, files, csv, pyg, written>>

\* BuildAgain, were the graph emptied at the start of build()
BuildAgainOnEmptyGraph ==
    /\ Ended
    /\ Len(past) + 1 < MaxBuilds
    /\ past' = Append(past, Outcome)
    /\ order' = << >>
    /\ attr' = EmptyMap
    /\ edges' = EmptyBag
    /\ calls' = << >>
    /\ status' = "running"
    /\ error' = NoError
    /\ UNCHANGED <<loader, id_maps_json, files, csv, pyg, data, id_maps,
                   country_by_name, node_features, hetero, written>>

\* build() called again on the same instance: self.G, self.id_maps,
\* self.node_features and self.hetero are made in __init__ only
BuildAgain ==
    /\ Ended
    /\ Len(past) + 1 < MaxBuilds
    /\ past' = Append(past, Outcome)
    /\ calls' = << >>
    /\ status' = "running"
    /\ error' = NoError
    /\ UNCHANGED <<loader, id_maps_json, files, csv, pyg, data, order, attr, edges, id_maps,
                   country_by_name, node_features, hetero, written>>

NextFresh == Next \/ NewBuilder

SpecFresh == RunsInit /\ [][NextFresh]_vars

NextAgain == Next \/ BuildAgain

SpecAgain == RunsInit /\ [][NextAgain]_vars

(***************************************************************************)
(* The contract loader (src/src/data/loader.py): one call of               *)
(* fetch_usaspending_contracts(n_records) or of                            *)
(* generate_synthetic_base(n_records).  Probabilities are in thousandths.  *)
(***************************************************************************)
MaxRecords == 4

PageLimit == 100

countries ==
    <<"UNITED STATES", "CHINA", "GERMANY", "MEXICO", "CANADA",
      "JAPAN", "SOUTH KOREA", "TAIWAN", "INDIA", "VIETNAM",
      "BRAZIL", "UNITED KINGDOM", "FRANCE", "ITALY", "NETHERLANDS",
      "SINGAPORE", "MALAYSIA", "THAILAND", "INDONESIA", "TURKEY">>

\* the argument p of np.random.choice(countries, n_records, p=...)
CountryProbabilities ==
    <<350, 150, 80, 70, 60, 50, 40, 40, 40, 30,
      20, 20, 10, 10, 10, 10, 10, 5, 5, 5>>

RECURSIVE SumTo(_, _)
SumTo(p, k) == IF k = 0 THEN 0 ELSE p[k] + SumTo(p, k - 1)

\* np.random.choice(a, size, p=p) raises ValueError when a and p differ in
\* length and when the probabilities do not sum to 1
ChoiceRaises(a, p) == Len(a) # Len(p) \/ SumTo(p, Len(p)) # 1000

SyntheticColumns ==
    {"recipient_name", "award_amount", "country", "product_category", "start_date",
     "contract_duration_days"}

\* the fields asked of the API, the columns of a table of fetched records
ApiColumns ==
    {"Award ID", "Recipient Name", "Award Amount", "Awarding Agency", "Award Type",
     "recipient_location_country_name", "Product or Service Code",
     "Period of Performance Start Date", "Period of Performance Current End Date",
     "Description"}

Min(a, b) == IF a <= b THEN a ELSE b

\* a call is about to start: its entry point, n_records, and whether the cache
\* file usaspending_contracts.csv exists and how many rows it holds
LoaderInit ==
    /\ files = TableNames
    /\ pyg = TRUE
    /\ csv = SampleTables
    /\ Constructed
    /\ past = NoPast
    /\ \E e \in {"fetch_usaspending_contracts", "generate_synthetic_base"},
          n \in 1..MaxRecords, k \in 0..MaxRecords :
          loader = [NoCall EXCEPT !.entry = e, !.n = n, !.cache = (k > 0), !.cached = k,
                                  !.pc = "call"]

builder == <<files, csv, pyg, data, order, attr, edges, id_maps, country_by_name,
             node_features, hetero, written, calls, status, error, id_maps_json>>

\* fetch_usaspending_contracts: the cache is returned when it exists
FetchStart ==
    /\ loader.entry = "fetch_usaspending_contracts"
    /\ loader.pc = "call"
    /\ loader' = IF loader.cache
                 THEN [loader EXCEPT !.pc = "returned", !.rows = loader.cached,
                                     !.columns = {"cache"}]
                 ELSE [loader EXCEPT !.pc = "loop", !.records = 0, !.page = 1,
                                     !.per_page = Min(PageLimit, loader.n)]
    /\ UNCHANGED <<builder, past>>

\* one request of the loop: a page of 1..per_page results is appended; an empty
\* page leaves the loop, and so does a status other than 200 or an exception,
\* after the warning "using synthetic fallback"
FetchPage ==
    /\ loader.pc = "loop"
    /\ loader.records < loader.n
    /\ \/ \E k \in 1..loader.per_page :
             loader' = [loader EXCEPT !.records = @ + k, !.page = @ + 1]
       \/ loader' = [loader EXCEPT !.pc = "after"]
       \/ loader' = [loader EXCEPT !.pc = "after", !.api = "failed"]
    /\ UNCHANGED <<builder, past>>

\* while len(all_records) < n_records: the loop ends
FetchLoopEnd ==
    /\ loader.pc = "loop"
    /\ loader.records >= loader.n
    /\ loader' = [loader EXCEPT !.pc = "after"]
    /\ UNCHANGED <<builder, past>>

\* if all_records: the records are cached and returned; else the synthetic base
FetchFinish ==
    /\ loader.pc = "after"
    /\ loader' = IF loader.records > 0
                 THEN [loader EXCEPT !.pc = "returned", !.rows = loader.records,
                                     !.columns = ApiColumns, !.cache = TRUE,
                                     !.cached = loader.records]
                 ELSE [loader EXCEPT !.pc = "synthetic"]
    /\ UNCHANGED <<builder, past>>

\* generate_synthetic_base(n_records), called directly or as the fallback
GenerateSyntheticBase ==
    /\ \/ loader.entry = "generate_synthetic_base" /\ loader.pc = "call"
       \/ loader.pc = "synthetic"
    /\ loader' = IF ChoiceRaises(countries, CountryProbabilities)
                 THEN [loader EXCEPT !.pc = "raised", !.error = "ValueError"]
                 ELSE [loader EXCEPT !.pc = "returned", !.rows = loader.n,
                                     !.columns = SyntheticColumns, !.cache = TRUE,
                                     !.cached = loader.n]
    /\ UNCHANGED <<builder, past>>

LoaderNext ==
    \/ FetchStart
    \/ FetchPage
    \/ FetchLoopEnd
    \/ FetchFinish
    \/ GenerateSyntheticBase

SpecLoader == LoaderInit /\ [][LoaderNext]_vars

(***************************************************************************)
(* Properties                                                              *)
(***************************************************************************)
Done(m) == m \in Range(calls)

Built == status = "done"

\* the sum of the row counts of the five entity tables
RowCount ==
    Len(csv["suppliers"]) + Len(csv["components"]) + Len(csv["countries"])
        + Len(csv["contracts"]) + Len(csv["routes"])

KeysOf(t) == {Key(t, csv[EntityTable(t)][i]) : i \in DOMAIN csv[EntityTable(t)]}

AllKeys == UNION {KeysOf(t) : t \in NodeTypeSet}

\* no key is repeated within a table or shared between two tables
KeysUnique ==
    /\ \A t \in NodeTypeSet : Cardinality(KeysOf(t)) = Len(csv[EntityTable(t)])
    /\ \A t1, t2 \in NodeTypeSet : t1 # t2 => KeysOf(t1) \cap KeysOf(t2) = {}

\* C1 (as stated): after build(), whatever the tables hold, stats().total_nodes
\* is the sum of the row counts of the five entity tables.
C1_TotalNodesIsRowCount == Built => Stats.total_nodes = RowCount

\* C1 (amended): after build(), stats().total_nodes is the number of distinct
\* natural keys of the five entity tables taken together; it is the sum of the
\* row counts exactly when no key is repeated within a table or shared between
\* two tables.
C1_TotalNodesIsDistinctKeys ==
    Built => /\ Stats.total_nodes = Cardinality(AllKeys)
             /\ (Stats.total_nodes = RowCount) <=> KeysUnique

C1_Witness == Built /\ ~KeysUnique /\ Stats.total_nodes < RowCount /\ Stats.total_nodes > 1

\* C2: after node materialization the index values of every index map are
\* exactly 0 .. k-1 for its k keys, no two keys sharing an index, also when a
\* key appears in more than one row of a table.
C2_DenseIndices ==
    Done("_nodes") =>
        \A t \in DOMAIN id_maps :
            /\ Range(id_maps[t]) = 0..(Cardinality(DOMAIN id_maps[t]) - 1)
            /\ \A k1, k2 \in DOMAIN id_maps[t] : id_maps[t][k1] = id_maps[t][k2] => k1 = k2

\* C3: after edge materialization every edge of a relation goes from a node of
\* the relation's declared source type to a node of its declared destination type.
C3_TypedEndpoints ==
    Done("_edges") =>
        \A e \in BagToSet(edges) :
            /\ attr[e.u].node_type = EdgeTypeOf(e.relation).src
            /\ attr[e.v].node_type = EdgeTypeOf(e.relation).dst

\* C4: co_supplier is symmetric in every graph state: there are as many
\* co_supplier edges A->B as B->A.
C4_CoSupplierSymmetric ==
    \A a \in DOMAIN attr, b \in DOMAIN attr :
        CopiesIn(Edge(a, b, "co_supplier"), edges) = CopiesIn(Edge(b, a, "co_supplier"), edges)

C4_Witness ==
    \E a \in DOMAIN attr, b \in DOMAIN attr :
        a # b /\ CopiesIn(Edge(a, b, "co_supplier"), edges) > 0

\* a table row that names an identifier which is not a node
Dangling(row) == ~InG(Graph, row.supplier_id) \/ ~InG(Graph, row.component_id)

BadCells(row) == IntRaises(row.is_primary) \/ FloatRaises(row.unit_price_usd)

\* C5: edge materialization is reference-safe: it leaves the node set as _nodes
\* built it, every edge it adds joins two nodes that were there before, and
\* when it raises, a sourcing link with both endpoints in the graph did it,
\* never a row with a dangling identifier.
C5_ReferenceSafe ==
    [][AtStep("_edges") =>
          /\ order' = order
          /\ attr' = attr
          /\ \A e \in BagToSet(edges') : InG(Graph, e.u) /\ InG(Graph, e.v)
          /\ status' = "failed" =>
                \E i \in DOMAIN data["sourcing_links"] :
                    /\ ~Dangling(data["sourcing_links"][i])
                    /\ BadCells(data["sourcing_links"][i])]_vars

\* a dangling sourcing link with unreadable cells was passed over
C5_Witness ==
    /\ Done("_edges")
    /\ edges # EmptyBag
    /\ \E i \in DOMAIN data["sourcing_links"] :
          /\ Dangling(data["sourcing_links"][i])
          /\ BadCells(data["sourcing_links"][i])

\* number of rows of the feature matrix of a type
MatrixRows(x, t) == IF t \in DOMAIN x THEN Len(x[t]) ELSE 0

\* C6: the exports agree on node count: a feature matrix has as many rows as
\* its type has keys in the index map and nodes in the graph, and every row
\* number in an edge-index tensor is below the row count of the matrix of the
\* relation's source, resp. destination, type.
C6_ExportsAgree ==
    Built =>
        /\ \A t \in DOMAIN node_features :
              /\ Len(node_features[t]) = Cardinality(DOMAIN IdMap(t))
              /\ Len(node_features[t]) = Stats.n_nodes[t]
        /\ \A rel \in DOMAIN hetero.edge_index :
              \A col \in BagToSet(hetero.edge_index[rel]) :
                  /\ col[1] < MatrixRows(hetero.x, EdgeTypeOf(rel).src)
                  /\ col[2] < MatrixRows(hetero.x, EdgeTypeOf(rel).dst)

\* the normalized feature vector of node n of type t, from the node's attributes
VectorOf(n, t) ==
    LET fs == NODE_FEATURE_SPECS(t)
        col(j) == {Raw(m, fs[j]) : m \in {x \in DOMAIN attr : attr[x].node_type = t}}
        lo(j) == MinOf(col(j))
        hi(j) == MaxOf(col(j))
    IN [j \in DOMAIN fs |->
           Frac(Raw(n, fs[j]) - lo(j), IF hi(j) = lo(j) THEN 1 ELSE hi(j) - lo(j))]

\* C7: feature-matrix rows follow index-assignment order: row id_maps[T][k] of
\* T's matrix is the normalized feature vector of graph node k.
C7_RowsFollowIndex ==
    Built =>
        \A t \in DOMAIN id_maps :
            \A k \in DOMAIN id_maps[t] :
                /\ t \in DOMAIN node_features
                /\ id_maps[t][k] + 1 \in DOMAIN node_features[t]
                /\ attr[k].node_type = t
                /\ node_features[t][id_maps[t][k] + 1] = VectorOf(k, t)

\* C8: with a required table file absent, build() ends in the missing-input
\* error naming an absent file and the generation command; the graph, the
\* index maps and the feature matrices are empty and no output file exists.
C8_MissingInput ==
    files # TableNames =>
        /\ calls = << >>
        /\ status # "done"
        /\ status = "failed" =>
              /\ error.type = "FileNotFoundError"
              /\ error.file \in TableNames \ files
              /\ \A i, j \in DOMAIN Tables : (i < j /\ Tables[j] = error.file) => Tables[i] \in files
              /\ error.hint = "python -m src.data.generator"
              /\ order = << >> /\ attr = EmptyMap /\ edges = EmptyBag
              /\ id_maps = EmptyMap /\ country_by_name = EmptyMap
              /\ node_features = EmptyMap /\ ~hetero.present
              /\ written = {}

\* some tables were read before the absent one was met
C8_Witness ==
    /\ status = "failed"
    /\ error.type = "FileNotFoundError"
    /\ error.file = "routes"
    /\ DOMAIN data = {"suppliers", "components", "countries", "contracts"}

\* C9: the missing-input error is the only failure of build(): with all six
\* files present build() never raises, whatever the cells hold.
C9_OnlyMissingInputFails == files = TableNames => status # "failed"

\* C10: the phases run strictly in the order loading, node materialization,
\* edge materialization, feature normalization, export: each part of the state
\* changes only in its own phase, after all earlier phases have finished.
C10_PhaseOrder ==
    [][/\ data' # data => calls = << >>
       /\ (order' # order \/ attr' # attr \/ id_maps' # id_maps) => calls = <<"_load">>
       /\ edges' # edges => calls = <<"_load", "_nodes">>
       /\ node_features' # node_features => calls = <<"_load", "_nodes", "_edges">>
       /\ hetero' # hetero => calls = <<"_load", "_nodes", "_edges", "_features">>
       /\ written' # written =>
             calls = <<"_load", "_nodes", "_edges", "_features", "_to_pyg">>]_vars

C10_Witness ==
    /\ Built
    /\ order # << >>
    /\ edges # EmptyBag
    /\ node_features # EmptyMap
    /\ hetero.present
    /\ written # {}

\* C11: build() is deterministic across builder instances: a build() on a
\* second, new instance over the same input ends as the first one did, with
\* the same index map for every node type and the same edge count for every
\* relation, whatever order the sets co and tw are iterated in.
C11_Deterministic ==
    Ended =>
        \A i \in DOMAIN past :
            /\ past[i].status = status
            /\ past[i].id_maps = id_maps
            /\ past[i].n_edges = Stats.n_edges

\* a second instance has built a graph whose set co holds a pair that is
\* skipped (supplier 8 is in no table) and a pair that gives edges
C11_Witness ==
    /\ Built
    /\ Len(past) = 1
    /\ \E p \in CoPairs(csv["sourcing_links"]) : 8 \in {p[1], p[2]}
    /\ Stats.n_edges["co_supplier"] = 2
    /\ Stats.n_edges["trades_with"] = 2

\* the (supplier, component) pairs of the sourcing links
Listed == {<<csv["sourcing_links"][i].supplier_id, csv["sourcing_links"][i].component_id>> :
              i \in DOMAIN csv["sourcing_links"]}

\* two suppliers are listed under one component at least
Share(a, b) == \E c \in {p[2] : p \in Listed} : <<a, c>> \in Listed /\ <<b, c>> \in Listed

\* what the scenario expects of the built graph and of the tensor bundle
ScenarioExpected ==
    /\ Stats.n_edges["co_supplier"] = 2
    /\ \E a, b \in DOMAIN attr :
          /\ a # b
          /\ CopiesIn(Edge(a, b, "co_supplier"), edges) = 1
          /\ CopiesIn(Edge(b, a, "co_supplier"), edges) = 1
    /\ Stats.n_nodes = [t \in NodeTypeSet |->
                           CASE t = "supplier" -> 3 [] t = "component" -> 2
                             [] t = "country" -> 2 [] t = "contract" -> 1
                             [] t = "route" -> 1]
    /\ "supplies" \in DOMAIN hetero.edge_index
    /\ BagCardinality(hetero.edge_index["supplies"]) = 4
    /\ \A col \in BagToSet(hetero.edge_index["supplies"]) : Len(col) = 2

\* C12 as stated: in the scenario, whenever the 4 sourcing links list two
\* suppliers under one component, build() yields exactly 2 co_supplier edges,
\* the node counts 3, 2, 2, 1, 1 and a supplies tensor of 2 rows, 4 columns.
C12_ScenarioAsStated ==
    (Built /\ \E a, b \in {1, 2, 3} : a # b /\ Share(a, b)) => ScenarioExpected

\* C12, amended: in the scenario, when the 4 sourcing links are the four
\* combinations of two of the suppliers with the two components, build()
\* yields exactly 2 co_supplier edges, one in each direction, the node counts
\* 3, 2, 2, 1, 1 and a supplies tensor of 2 rows and 4 columns.
C12_Scenario ==
    (Built /\ \E a, b \in {1, 2, 3} : a # b /\ Listed = {a, b} \X {4, 5})
        => ScenarioExpected

\* the two suppliers are listed in opposite orders under the two components
C12_Witness ==
    /\ Built
    /\ Listed = {1, 2} \X {4, 5}
    /\ csv["sourcing_links"][1].supplier_id = 2
    /\ csv["sourcing_links"][4].supplier_id = 2
    /\ ScenarioExpected

\* the number of edges among es, every parallel edge counted
RECURSIVE Copies(_)
Copies(es) ==
    IF es = {} THEN 0
    ELSE LET e == CHOOSE x \in es : TRUE
         IN CopiesIn(e, edges) + Copies(es \ {e})

\* C13: whenever stats() is called, total_nodes is the number of nodes and
\* total_edges the number of edges of the graph, parallel edges counted one by
\* one; density is total_edges / (total_nodes * (total_nodes - 1)) when
\* total_nodes > 1, and 0 when total_nodes is 0 or 1.
C13_Density ==
    LET n == Cardinality(DOMAIN attr)
        m == Copies(BagToSet(edges))
        d == Stats.density
    IN /\ Stats.total_nodes = n
       /\ Stats.total_edges = m
       /\ d.den > 0
       /\ IF n > 1 THEN d.num * (n * (n - 1)) = m * d.den ELSE d.num = 0

\* a built graph of several nodes with a parallel edge
C13_Witness ==
    /\ Built
    /\ Stats.total_nodes > 1
    /\ \E e \in BagToSet(edges) : CopiesIn(e, edges) = 2
    /\ Stats.density.num > 0

\* the raw values of column f over the nodes of type t
Column(t, f) == {Raw(n, f) : n \in {x \in DOMAIN attr : attr[x].node_type = t}}

Coerced(row, f) == IF f \in DOMAIN row /\ row[f].kind = "num" THEN row[f].val ELSE 0

\* C17: tolerant coercion: for every entity row and every declared numeric
\* feature read from a column, the node attribute is the value of the cell
\* when the cell is a number, and 0 when the column is missing or the cell is
\* empty or a text; criticality_encoded of a component is 0, 1, 2, 3 for Low,
\* Medium, High, Critical and 0 for any other label; _nodes never raises.
C17_TolerantCoercion ==
    /\ status = "failed" => Len(calls) # 1
    /\ Done("_nodes") =>
          \A t \in NodeTypeSet :
              \A i \in DOMAIN csv[EntityTable(t)] :
                  LET row == csv[EntityTable(t)][i]
                      feats == attr[Key(t, row)].feats
                  IN \A f \in Range(NODE_FEATURE_SPECS(t)) :
                        IF f = "criticality_encoded"
                        THEN feats[f] = CASE row.criticality = "Low" -> 0
                                          [] row.criticality = "Medium" -> 1
                                          [] row.criticality = "High" -> 2
                                          [] row.criticality = "Critical" -> 3
                                          [] OTHER -> 0
                        ELSE feats[f] = Coerced(row, f)

\* suppliers with an empty cell, a text and no column on_time_delivery, and
\* components labelled Critical, High and with a label outside the map
C17_Witness ==
    /\ Done("_nodes")
    /\ \E i, j \in DOMAIN csv["suppliers"] :
          /\ csv["suppliers"][i].annual_spend_usd = NaN
          /\ csv["suppliers"][j].annual_spend_usd = Text
          /\ "on_time_delivery" \notin DOMAIN csv["suppliers"][i]
          /\ attr[21].feats["on_time_delivery"] = 0
    /\ {csv["components"][i].criticality : i \in DOMAIN csv["components"]}
          = {"Critical", "High", "Unknown"}
    /\ attr[31].feats["criticality_encoded"] + attr[32].feats["criticality_encoded"]
          + attr[33].feats["criticality_encoded"] = 5

\* C15: build() is not idempotent on one instance: a build() called again on
\* the instance over unchanged input adds its edges to the graph the earlier
\* calls left, so after the second call the edge count of every relation is
\* twice its count after the first call (and k times after the k-th call).
C15_SecondBuildDoubles ==
    (Ended /\ past # << >>) =>
        \A rel \in Relations :
            Stats.n_edges[rel] = (Len(past) + 1) * past[1].n_edges[rel]

\* a second build() on the instance has ended after a first one that built
\* supplies, co_supplier and trades_with edges
C15_Witness ==
    /\ Built
    /\ Len(past) = 1
    /\ past[1].status = "done"
    /\ past[1].n_edges["supplies"] = 3
    /\ past[1].n_edges["co_supplier"] = 2
    /\ past[1].n_edges["trades_with"] = 2
    /\ Stats.n_edges["co_supplier"] = 4

\* C16: when torch_geometric cannot be imported, build() still completes: once
\* _features has returned nothing raises; no tensor bundle is produced and no
\* tensor-bundle file is written, while the attributed-graph file, the
\* index-map file and the statistics file are all written.
C16_NoTensorLibrary ==
    ~pyg =>
        /\ ~hetero.present
        /\ "procurement_kg.pt" \notin written
        /\ Done("_features") => status # "failed"
        /\ Built => written = {"procurement_kg.graphml", "id_maps.json", "kg_stats.json"}

\* a build() without torch_geometric has returned
C16_Witness ==
    /\ ~pyg
    /\ Built
    /\ Done("_to_pyg")
    /\ Stats.total_edges > 0
    /\ written = {"procurement_kg.graphml", "id_maps.json", "kg_stats.json"}

\* C18: generate_synthetic_base(n) returns, without raising, a table of
\* exactly n rows with the columns recipient_name, award_amount and country,
\* for every n >= 1; the 20 probabilities of the country draw sum to 1.
C18_SyntheticBase ==
    (loader.entry = "generate_synthetic_base" /\ loader.pc # "call") =>
        /\ loader.pc = "returned"
        /\ loader.rows = loader.n
        /\ {"recipient_name", "award_amount", "country"} \subseteq loader.columns
        /\ SumTo(CountryProbabilities, Len(CountryProbabilities)) = 1000

SupplierNodes == {n \in DOMAIN attr : attr[n].node_type = "supplier"}

\* C19: co_supplier is deduplicated at the pair level: after _edges, for every
\* two distinct supplier nodes A and B listed under a common component in the
\* sourcing links there is exactly one co_supplier edge A -> B and exactly one
\* B -> A, however many components they share and however often a sourcing
\* link repeats the same (supplier, component) pair.
C19_PairDedup ==
    Done("_edges") =>
        \A a, b \in SupplierNodes :
            (a # b /\ Share(a, b)) =>
                /\ CopiesIn(Edge(a, b, "co_supplier"), edges) = 1
                /\ CopiesIn(Edge(b, a, "co_supplier"), edges) = 1

\* the four sourcing links repeat (1, 4) and (2, 4), or list the suppliers 1
\* and 2 under both components
C19_Witness ==
    /\ Done("_edges")
    /\ Len(csv["sourcing_links"]) = 4
    /\ Listed \in {{<<1, 4>>, <<2, 4>>}, {1, 2} \X {4, 5}}
    /\ CopiesIn(Edge(1, 2, "co_supplier"), edges) = 1
    /\ CopiesIn(Edge(2, 1, "co_supplier"), edges) = 1

\* C20: co_supplier is derived from the supplies relation: a co_supplier edge
\* A -> B exists only if some component node C of the graph has a supplies
\* edge from A and a supplies edge from B.
C20_CoSupplierFromSupplies ==
    \A e \in BagToSet(edges) :
        e.relation = "co_supplier" =>
            \E c \in DOMAIN attr :
                /\ attr[c].node_type = "component"
                /\ CopiesIn(Edge(e.u, c, "supplies"), edges) > 0
                /\ CopiesIn(Edge(e.v, c, "supplies"), edges) > 0

CountryNodes == {n \in DOMAIN attr : attr[n].node_type = "country"}

\* the identifier of the last country row with the given name, None if there is none
Resolve(name) ==
    LET rows == csv["countries"]
        hits == {i \in DOMAIN rows : rows[i].name = name}
    IN IF hits = {} THEN None ELSE rows[MaxOf(hits)].country_id

\* C21: trades_with has one directed edge per observed pair and is not
\* deduplicated against the reverse pair: after _edges, for every ordered pair
\* (O, D) of country nodes there is exactly one trades_with edge O -> D if some
\* route row has an origin name resolving to O and a destination name
\* resolving to D, and none otherwise.
C21_TradesWith ==
    Done("_edges") =>
        \A o, d \in CountryNodes :
            CopiesIn(Edge(o, d, "trades_with"), edges) =
                IF \E i \in DOMAIN csv["routes"] :
                      /\ Resolve(csv["routes"][i].origin_country) = o
                      /\ Resolve(csv["routes"][i].destination_country) = d
                THEN 1 ELSE 0

\* the number of rows of a table that satisfy P
Count(rows, P(_)) == Cardinality({i \in DOMAIN rows : P(rows[i])})

\* C23: located_in is resolved by country name: after _edges, every supplier
\* row whose country is the name of a country row has given exactly one
\* located_in edge from its supplier to the country of that name, whatever
\* that country's identifier is; a row whose country is the name of no country
\* row has given no edge, and nothing is raised.
C23_LocatedInByName ==
    /\ status = "failed" => Len(calls) # 2
    /\ Done("_edges") =>
          \A s, c \in DOMAIN attr :
              LET Here(row) == row.supplier_id = s /\ Resolve(row.country) = c
              IN CopiesIn(Edge(s, c, "located_in"), edges) = Count(csv["suppliers"], Here)

\* C24: every edge of a route row or of a contract row is gated on its own
\* endpoint only: after _edges, a route row has given originates_in iff its
\* origin resolves to a graph node, delivers_to iff its destination does,
\* carries iff its component is a graph node; a contract row has given covers
\* iff its primary component is a graph node and signed_with iff its supplier is.
C24_OwnEndpointOnly ==
    Done("_edges") =>
        \A r, x \in DOMAIN attr :
            LET From(row) == row.route_id = r /\ Resolve(row.origin_country) = x
                To(row) == row.route_id = r /\ Resolve(row.destination_country) = x
                Carries(row) == row.route_id = r /\ row.component_id = x
                Covers(row) == row.contract_id = r /\ row.primary_component_id = x
                Signed(row) == row.contract_id = r /\ row.supplier_id = x
            IN /\ CopiesIn(Edge(r, x, "originates_in"), edges) = Count(csv["routes"], From)
               /\ CopiesIn(Edge(r, x, "delivers_to"), edges) = Count(csv["routes"], To)
               /\ CopiesIn(Edge(r, x, "carries"), edges) = Count(csv["routes"], Carries)
               /\ CopiesIn(Edge(r, x, "covers"), edges) = Count(csv["contracts"], Covers)
               /\ CopiesIn(Edge(r, x, "signed_with"), edges) = Count(csv["contracts"], Signed)

\* the rows of type t's table that carry the key k
RowsOf(t, k) == {i \in DOMAIN csv[EntityTable(t)] : Key(t, csv[EntityTable(t)][i]) = k}

\* C22: when an entity table has two or more rows with one natural key, _nodes
\* does not raise, the graph holds exactly one node for that key, the feature
\* attributes of the node are those of the last such row, and the index map of
\* the type holds an entry for that key, one per distinct key of the table.
C22_DuplicateKey ==
    /\ status = "failed" => Len(calls) # 1
    /\ Done("_nodes") =>
          \A t \in NodeTypeSet :
              /\ KeysOf(t) # {} => /\ t \in DOMAIN id_maps
                                   /\ DOMAIN id_maps[t] = KeysOf(t)
              /\ \A k \in KeysOf(t) :
                    LET last == csv[EntityTable(t)][MaxOf(RowsOf(t, k))]
                    IN /\ Cardinality({i \in DOMAIN order : order[i] = k}) = 1
                       /\ \A f \in Range(NODE_FEATURE_SPECS(t)) :
                             attr[k].feats[f] = IF f = "criticality_encoded"
                                                THEN CriticalityEncoded(last)
                                                ELSE Coerced(last, f)

\* two supplier rows with the key 1 have given one node with the feature value
\* of the second row
C22_Witness ==
    /\ Done("_nodes")
    /\ Len(csv["suppliers"]) = 2
    /\ KeysOf("supplier") = {1}
    /\ csv["suppliers"][1].annual_spend_usd # csv["suppliers"][2].annual_spend_usd
    /\ attr[1].feats["annual_spend_usd"] = csv["suppliers"][2].annual_spend_usd.val
    /\ DOMAIN id_maps["supplier"] = {1}

\* the number of edges of G, parallel ones counted, among the distinct edges es
RECURSIVE EdgeCount(_)
EdgeCount(es) ==
    IF es = {} THEN 0
    ELSE LET e == CHOOSE x \in es : TRUE IN CopiesIn(e, edges) + EdgeCount(es \ {e})

\* the edges of G tagged rel whose source is a key of the source type's index
\* map and whose destination is a key of the destination type's index map
Resolving(rel) ==
    {e \in BagToSet(edges) :
        /\ e.relation = rel
        /\ EdgeTypeOf(rel).src \in DOMAIN id_maps /\ e.u \in DOMAIN id_maps[EdgeTypeOf(rel).src]
        /\ EdgeTypeOf(rel).dst \in DOMAIN id_maps /\ e.v \in DOMAIN id_maps[EdgeTypeOf(rel).dst]}

\* C25: for every relation of the catalog the edge-index tensor of the bundle
\* has one column (index of the source, index of the destination) per graph
\* edge tagged with the relation whose endpoints are keys of the index maps of
\* the relation's signature, and the relation has no entry iff no edge is such.
C25_EdgeIndex ==
    (pyg /\ Done("_to_pyg")) =>
        /\ hetero.present
        /\ DOMAIN hetero.edge_index = {rel \in Relations : Resolving(rel) # {}}
        /\ \A rel \in DOMAIN hetero.edge_index :
              LET sm == id_maps[EdgeTypeOf(rel).src]
                  dm == id_maps[EdgeTypeOf(rel).dst]
              IN /\ BagCardinality(hetero.edge_index[rel]) = EdgeCount(Resolving(rel))
                 /\ \A i \in Range(sm), j \in Range(dm) :
                       CopiesIn(<<i, j>>, hetero.edge_index[rel]) =
                           EdgeCount({e \in Resolving(rel) : sm[e.u] = i /\ dm[e.v] = j})

\* a sourcing link listed twice has given two parallel supplies edges and two
\* equal columns of the supplies tensor
C25_Witness ==
    /\ pyg /\ Done("_to_pyg")
    /\ \E e \in Resolving("supplies") :
          /\ CopiesIn(e, edges) = 2
          /\ CopiesIn(<<id_maps["supplier"][e.u], id_maps["component"][e.v]>>,
                      hetero.edge_index["supplies"]) = 2

\* C26: once _nodes has returned, no step of the build changes an entry of an
\* index map or of the country name map, and the id_maps.json written at the
\* end holds, under the text of each key, exactly the maps of the node types
\* and no entry for the name map.
C26_IndexMapsFrozen ==
    /\ [][Done("_nodes") => (id_maps' = id_maps /\ country_by_name' = country_by_name)]_vars
    /\ [](Built =>
            /\ DOMAIN id_maps_json = DOMAIN id_maps
            /\ \A t \in DOMAIN id_maps :
                  /\ DOMAIN id_maps_json[t] = {Str(k) : k \in DOMAIN id_maps[t]}
                  /\ \A k \in DOMAIN id_maps[t] : id_maps_json[t][Str(k)] = id_maps[t][k])

\* a build with countries has ended: the name map is not empty and the file
\* has the map of the countries
C26_Witness ==
    /\ Built
    /\ DOMAIN country_by_name # {}
    /\ "country" \in DOMAIN id_maps_json
    /\ DOMAIN id_maps_json["country"] # {}

\* C27: when a request of fetch_usaspending_contracts gets a status other than
\* 200 or raises, and there is no cache file, the call returns the synthetic
\* base data of n_records rows, however many pages were fetched before, and
\* does not raise.
C27_FallbackOnApiFailure ==
    (loader.api = "failed" /\ loader.pc \notin {"after", "synthetic"}) =>
        /\ loader.pc = "returned"
        /\ loader.rows = loader.n
        /\ loader.columns = SyntheticColumns

\* C28: after _edges no co_supplier edge goes from a supplier to itself and no
\* trades_with edge goes from a country to itself, whatever the sourcing links
\* and the routes hold.
C28_NoDerivedSelfLoop ==
    Done("_edges") =>
        \A e \in BagToSet(edges) :
            e.relation \in {"co_supplier", "trades_with"} => e.u # e.v

\* C29: after _nodes every key of the index map of a node type T is a node of
\* G whose node_type is T, and every node of G whose node_type is T is a key
\* of the index map of T, also when two entity tables use one identifier.
C29_MapsAgreeWithNodeType ==
    Done("_nodes") =>
        \A t \in NodeTypeSet :
            LET keys == IF t \in DOMAIN id_maps THEN DOMAIN id_maps[t] ELSE {}
            IN keys = {n \in DOMAIN attr : attr[n].node_type = t}

====
